---- MODULE Spec2Model ----
(***************************************************************************)
(* Tile-based parallel circle rasterizer of ScreenSaver_PPRY               *)
(* (paralela/opt/src/render.cpp): binning of particles to tiles, the       *)
(* OpenMP parallel region with its taskloop of per-tile work units, and    *)
(* the clipped scanline fill that writes the shared framebuffer.           *)
(*                                                                         *)
(* Particle positions are floating point in the program; here a position   *)
(* is an integer count of half pixels (x2 = 2*x), so that std::lround has  *)
(* something to round.  Colours are small naturals.  Indices are 0-based   *)
(* as in the program.  Coordinates and radii are small integers, far from   *)
(* the range where int arithmetic overflows.                               *)
(*                                                                         *)
(* A step of a tile's work unit is one draw_circle_clipped_to_tile call;   *)
(* the pixels each unit writes are recorded in written, so that two units  *)
(* touching the same pixel show whatever the order of their steps.         *)
(***************************************************************************)
EXTENDS Integers, Sequences, FiniteSets, TLC

\* --------------------------------------------------- constants and bounds
TILE == 32
MaxN == 2
MaxThreads == 2

\* tile edges: the program's TILE, and scaled-down edges that split the
\* small framebuffers of the model into several tiles
TileEdges == {2, 3, TILE}

\* <<W, H, tile edge>>: grids of 2x1, 2x2 and 1x1 tiles, with W and H
\* multiples of the edge or not
Geometries ==
    { <<3, 2, 2>>, <<4, 3, 2>>, <<4, 3, 3>>, <<3, 3, 3>>, <<4, 3, TILE>>, <<3, 2, TILE>> }

\* positions in half pixels (x2 = 2*x) and radii of the first particle:
\* left of, inside and right of the framebuffer, above and inside it,
\* on .5 positions that lround has to round; negative, zero, small and
\* larger-than-framebuffer radii
XHalves == {-4, 3, 8}
YHalves == {-1, 3}
Radii == {-1, 0, 1, 6}
\* one more first particle: a disc of radius 1 at (1.0, 1.0), inside the
\* first tile of the geometries with a tile edge of 3 or more
InsideRecords == { <<2, 2, 1>> }
\* and a disc of radius 1 at (1.5, 5.0), below the framebuffer
BelowRecords == { <<3, 10, 1>> }
\* the second particle: a point and a small disc at (1.5, 1.5), and a
\* covering disc centred left of the framebuffer
SecondRecords == { <<3, 3, 0>>, <<3, 3, 1>>, <<-4, 3, 6>> }
\* further particles: a point at (1.5, 1.5)
MoreRecords == { <<3, 3, 0>> }
Background == 0

\* --------------------------------------------------------------- helpers
Max(a, b) == IF a >= b THEN a ELSE b
Min(a, b) == IF a <= b THEN a ELSE b

\* C++ integer division of a by b > 0: truncation toward zero
CDiv(a, b) == IF a >= 0 THEN a \div b ELSE -((-a) \div b)

\* std::lround of h/2: round to nearest, halves away from zero
LRound(h) == IF h >= 0 THEN (h + 1) \div 2 ELSE -((1 - h) \div 2)

\* (int)std::floor(std::sqrt(n)) for an integer n >= 0
\* faulty variant of FloorSqrt: the root is rounded up
FloorSqrtUp(n) == CHOOSE k \in 0..n : k * k >= n /\ (k = 0 \/ (k - 1) * (k - 1) < n)
FloorSqrt(n) == CHOOSE k \in 0..n : k * k <= n /\ (k + 1) * (k + 1) > n

\* ------------------------------------------------------------- tile grid
\* faulty variant of TilesX: the partial last column is dropped
TilesXFloor(w, t) == w \div t
TilesX(w, t) == (w + t - 1) \div t
TilesY(h, t) == (h + t - 1) \div t
TotalTiles(w, h, t) == TilesX(w, t) * TilesY(h, t)

TileTx(tid, w, t) == tid % TilesX(w, t)
TileTy(tid, w, t) == tid \div TilesX(w, t)

TileX0(tx, t) == tx * t
\* faulty variants of TileX1: no clamp to W; one column too wide
TileX1BeyondW(tx, t, w) == TileX0(tx, t) + t
TileX1Overlap(tx, t, w) == Min(TileX0(tx, t) + t + 1, w)
TileX1(tx, t, w) == Min(TileX0(tx, t) + t, w)
\* faulty variant of TileY0: the rows below the first start one line late
TileY0Gap(ty, t) == IF ty > 0 THEN ty * t + 1 ELSE 0
TileY0(ty, t) == ty * t
TileY1(ty, t, h) == Min(TileY0(ty, t) + t, h)

\* --------------------------------------------------------------- binning
\* faulty variant of MinTx: the radius is left out
MinTxNoRadius(cx, r, t) == Max(0, CDiv(cx, t))
MinTx(cx, r, t) == Max(0, CDiv(cx - r, t))
\* faulty variant of MaxTx: the radius is left out
MaxTxNoRadius(cx, r, t, tiles_x) == Min(tiles_x - 1, CDiv(cx, t))
\* faulty variant of MaxTx: the quotient is rounded up
MaxTxCeil(cx, r, t, tiles_x) == Min(tiles_x - 1, CDiv(cx + r + t - 1, t))
MaxTx(cx, r, t, tiles_x) == Min(tiles_x - 1, CDiv(cx + r, t))
MinTy(cy, r, t) == Max(0, CDiv(cy - r, t))
MaxTy(cy, r, t, tiles_y) == Min(tiles_y - 1, CDiv(cy + r, t))

\* the tiles that the body of the binning loop appends particle idx to
BinTargets(Ps, idx, w, h, t) ==
    LET cx == LRound(Ps.x[idx])
        cy == LRound(Ps.y[idx])
        r  == Ps.r[idx]
    IN  { ty * TilesX(w, t) + tx :
            <<tx, ty>> \in (MinTx(cx, r, t)..MaxTx(cx, r, t, TilesX(w, t)))
                        \X (MinTy(cy, r, t)..MaxTy(cy, r, t, TilesY(h, t))) }

\* faulty variant of BinParticle: the index is put in front of the bin
BinParticlePrepend(b, Ps, idx, w, h, t) ==
    [tid \in DOMAIN b |->
        IF tid \in BinTargets(Ps, idx, w, h, t) THEN <<idx>> \o b[tid] ELSE b[tid]]

\* faulty variant of BinParticle: the index is appended twice
BinParticleTwice(b, Ps, idx, w, h, t) ==
    [tid \in DOMAIN b |->
        IF tid \in BinTargets(Ps, idx, w, h, t) THEN b[tid] \o <<idx, idx>> ELSE b[tid]]

\* one iteration of the binning loop
BinParticle(b, Ps, idx, w, h, t) ==
    [tid \in DOMAIN b |->
        IF tid \in BinTargets(Ps, idx, w, h, t) THEN Append(b[tid], idx) ELSE b[tid]]

EmptyBins(w, h, t) == [tid \in 0..(TotalTiles(w, h, t) - 1) |-> <<>>]

RECURSIVE BinUpTo(_, _, _, _, _)
\* the bins after the binning loop has processed particles 0..k-1
BinUpTo(Ps, k, w, h, t) ==
    IF k = 0 THEN EmptyBins(w, h, t)
    ELSE BinParticle(BinUpTo(Ps, k - 1, w, h, t), Ps, k - 1, w, h, t)

\* ---------------------------------------------------------- scanline fill
\* faulty variant of YYFrom: the rows start at the top of the tile
YYFromTileTop(cy, r, y0) == y0
YYFrom(cy, r, y0) == Max(cy - r, y0)
\* faulty variant of YYTo: the row y1 is included
YYToInclusive(cy, r, y1) == Min(cy + r, y1)
YYTo(cy, r, y1) == Min(cy + r, y1 - 1)
\* faulty variant of HalfWidth: the full radius on every row
HalfWidthSquare(r, dy) == r
\* faulty variant of HalfWidth: a diamond instead of a disc
HalfWidthDiamond(r, dy) == IF dy >= 0 THEN r - dy ELSE r + dy
HalfWidth(r, dy) == FloorSqrt(r * r - dy * dy)
\* faulty variant of XX0: the span is not clipped on the left
XX0NoClip(cx, dx, x0) == cx - dx
XX0(cx, dx, x0) == Max(cx - dx, x0)
\* faulty variant of XX1: the span is not clipped to the tile
XX1NoClip(cx, dx, x1) == cx + dx
XX1(cx, dx, x1) == Min(cx + dx, x1 - 1)

\* the pixels <<xx, yy>> that draw_circle_clipped_to_tile writes
CirclePixels(cx, cy, r, x0, y0, x1, y1) ==
    UNION { { <<xx, yy>> :
                xx \in XX0(cx, HalfWidth(r, yy - cy), x0)..XX1(cx, HalfWidth(r, yy - cy), x1) } :
            yy \in YYFrom(cy, r, y0)..YYTo(cy, r, y1) }

\* faulty variant of WritePixels: a pixel that was painted is not repainted
WritePixelsKeepFirst(pix, w, S, color) ==
    LET idx == { q[2] * w + q[1] : q \in S }
    IN  [p \in DOMAIN pix |-> IF p \in idx /\ pix[p] = 0 THEN color ELSE pix[p]]
\* faulty variant of WritePixels: the pixels outside S are cleared
WritePixelsClearing(pix, w, S, color) ==
    LET idx == { q[2] * w + q[1] : q \in S }
    IN  [p \in DOMAIN pix |-> IF p \in idx THEN color ELSE 0]
\* fb.pix after  fb.pix[(size_t)yy * fb.W + xx] = color  for every pixel of S.
\* An index outside the array has no cell in the model; such a write is
\* visible only in the record of written pixels.
WritePixels(pix, w, S, color) ==
    LET idx == { q[2] * w + q[1] : q \in S }
    IN  [p \in DOMAIN pix |-> IF p \in idx THEN color ELSE pix[p]]

\* the pixels written for particle idx inside tile tid
TilePixels(Ps, idx, tid, w, h, t) ==
    CirclePixels(LRound(Ps.x[idx]), LRound(Ps.y[idx]), Ps.r[idx],
                 TileX0(TileTx(tid, w, t), t), TileY0(TileTy(tid, w, t), t),
                 TileX1(TileTx(tid, w, t), t, w), TileY1(TileTy(tid, w, t), t, h))

\* one draw_circle_clipped_to_tile call of tile tid's loop over its bin
DrawInTile(pix, Ps, idx, tid, w, h, t) ==
    WritePixels(pix, w, TilePixels(Ps, idx, tid, w, h, t), Ps.color[idx])

RECURSIVE RenderTile(_, _, _, _, _, _, _, _)
\* the first k calls of tile tid's loop  for (int idx : vec)
RenderTile(pix, Ps, vec, k, tid, w, h, t) ==
    IF k = 0 THEN pix
    ELSE DrawInTile(RenderTile(pix, Ps, vec, k - 1, tid, w, h, t),
                    Ps, vec[k], tid, w, h, t)

RECURSIVE RenderTilesUpTo(_, _, _, _, _, _, _)
\* the sequential build: tiles 0..k-1 one at a time in ascending index
RenderTilesUpTo(pix, Ps, b, k, w, h, t) ==
    IF k = 0 THEN pix
    ELSE RenderTile(RenderTilesUpTo(pix, Ps, b, k - 1, w, h, t),
                    Ps, b[k - 1], Len(b[k - 1]), k - 1, w, h, t)

\* the whole sequential (non-OpenMP) render pass with tile edge t
RenderSequential(pix, Ps, w, h, t) ==
    RenderTilesUpTo(pix, Ps, BinUpTo(Ps, Ps.n, w, h, t), TotalTiles(w, h, t), w, h, t)

\* ------------------------------------- the unclipped fill (base screensaver)
\* (int)std::sqrt((double)n) for an integer n >= 0: truncation
SqrtTrunc(n) == CHOOSE k \in 0..n : k * k <= n /\ (k + 1) * (k + 1) > n

\* drawFilledCircle: one horizontal line from cx-dx to cx+dx on every row
\* cy+dy, dy = -radius..radius; the pixels <<x, y>> of those lines
FilledCirclePixels(cx, cy, radius) ==
    UNION { { <<x, cy + dy>> :
                x \in (cx - SqrtTrunc(radius * radius - dy * dy))
                      ..(cx + SqrtTrunc(radius * radius - dy * dy)) } :
            dy \in (-radius)..radius }

\* the lines as they land on a w x h target: the part outside is clipped away
FilledCircleOnTarget(cx, cy, radius, w, h) ==
    { q \in FilledCirclePixels(cx, cy, radius) :
        0 <= q[1] /\ q[1] < w /\ 0 <= q[2] /\ q[2] < h }

\* the particle store without particle k
WithoutParticle(Ps, k) ==
    LET old(j) == IF j < k THEN j ELSE j + 1
    IN  [n     |-> Ps.n - 1,
         x     |-> [j \in 0..(Ps.n - 2) |-> Ps.x[old(j)]],
         y     |-> [j \in 0..(Ps.n - 2) |-> Ps.y[old(j)]],
         r     |-> [j \in 0..(Ps.n - 2) |-> Ps.r[old(j)]],
         color |-> [j \in 0..(Ps.n - 2) |-> Ps.color[old(j)]]]

\* ------------------------------------------------------------ the inputs
\* ParticlesSOA built from a sequence of particle records
SOA(s) ==
    [n     |-> Len(s),
     x     |-> [k \in 0..(Len(s) - 1) |-> s[k + 1].x],
     y     |-> [k \in 0..(Len(s) - 1) |-> s[k + 1].y],
     r     |-> [k \in 0..(Len(s) - 1) |-> s[k + 1].r],
     color |-> [k \in 0..(Len(s) - 1) |-> s[k + 1].color]]

\* particle k (0-based) gets colour k+1, so that the writer of a pixel is
\* recognisable from the pixel
ParticleRecords(k) ==
    { [x |-> q[1], y |-> q[2], r |-> q[3], color |-> k + 1] :
        q \in IF k = 0 THEN (XHalves \X YHalves \X Radii) \cup InsideRecords
                                \cup BelowRecords
              ELSE IF k = 1 THEN SecondRecords ELSE MoreRecords }

RECURSIVE ParticleSeqs(_)
\* the particle sequences of length len; a third and later particle is
\* added to the sequences that end with a point
ParticleSeqs(len) ==
    IF len = 0 THEN { <<>> }
    ELSE { Append(s, q) :
             s \in { t \in ParticleSeqs(len - 1) : len <= 2 \/ t[len - 1].r = 0 },
             q \in ParticleRecords(len - 1) }

ParticleSets == { SOA(s) : s \in UNION { ParticleSeqs(len) : len \in 0..MaxN } }

\* Framebuffer(w, h) followed by clear(abgr)
Cleared(w, h, abgr) == [p \in 0..(w * h - 1) |-> abgr]

\* ------------------------------------------------------------- the state
VARIABLES
    W, H, tile,     \* fb.W, fb.H and the tile edge
    P,              \* the particle store (ParticlesSOA)
    fb0,            \* fb.pix at the call
    fb,             \* fb.pix
    pc,             \* "binning", "parallel", "returned"
    i,              \* the binning loop's particle index
    bins,           \* bins[tid]: sequence of particle indices
    nthreads,       \* size of the thread team of the parallel region
    thr,            \* thr[th]: position of thread th in the parallel region
    single,         \* the thread that executes the single region, -1 if none yet
    gen,            \* the next iteration the taskloop makes a task of
    task,           \* task[tid]: "none", "ready", "running", "done"
    cur,            \* cur[th]: the tile whose task thread th is executing, -1 if none
    pos,            \* pos[tid]: how many entries of bins[tid] the task has drawn
    runs,           \* runs[tid]: how many times the work unit of tid was started
    written,        \* written[tid]: the pixels <<xx, yy>> written by tile tid's unit
    binsAtFork      \* the bins as they were when the parallel region was entered

\* the caller's use of Framebuffer::clear
VARIABLES
    app,            \* "off"; "fresh" after construction, "drawn", "cleared"
    clearColor,     \* the argument of the last clear, -1 if none yet
    twice,          \* the last two calls were clears with the same argument
    onceFb,         \* fb.pix as the first clear of a run of clears left it
    beforeFb        \* fb.pix as that first clear found it

clearVars == <<app, clearColor, twice, onceFb, beforeFb>>

\* the update loop of the optimized screensaver's frame
VARIABLES
    circles,        \* circles[i]: x, y in 1/1000 px, vx, vy in 1/1000 px/s, r in px
    circles0,       \* circles when the loop was entered
    dt,             \* the frame's dt in ms
    totalBounces,   \* the shared counter
    bounces0,       \* totalBounces when the loop was entered
    chunk,          \* the chunk size of schedule(dynamic, chunk)
    next,           \* the first iteration that no thread has been given yet
    upd,            \* upd[th]: iteration it, chunk end, stage of thread th
    taken,          \* how many wall-collision branches the loop has taken
    raced,          \* an increment was made while another thread was at one
    upc             \* "off", "loop", "joined"

updateVars == <<circles, circles0, dt, totalBounces, bounces0, chunk, next, upd,
                taken, raced, upc>>

\* the loop over circles of the optimized screensaver's render section
VARIABLES
    drawColor,      \* the draw colour of the shared SDL renderer
    rchunk,         \* the chunk size of schedule(dynamic, rchunk)
    rnext,          \* the first iteration that no thread has been given yet
    sdl,            \* sdl[th]: iteration it, chunk end, stage, points still to draw
    drawn,          \* the points drawn: <<circle, <<x, y>>, colour drawn in>>
    rpc             \* "off", "loop", "joined"

sdlVars == <<drawColor, rchunk, rnext, sdl, drawn, rpc>>

\* the base screensaver
VARIABLES
    frame,          \* the number of the frame whose update loop runs, 0 if none
    argv,           \* the command-line arguments after the program name
    args,           \* the Args of main: fields N, W, H, FPS
    cli             \* the next of the four lines that set args to run, 5 after
                    \* the last, 0 if the command line is not modelled

\* one iteration of runSimulationMemoryOptimized
VARIABLES
    num_circles,    \* circles.size()
    num_threads,    \* omp_get_max_threads() when the function was entered
    region,         \* region[th]: "compute", "critical" or "done", for each
                    \* thread of the team of the parallel region
    local_x,        \* local_x[th]: the indices whose new values thread th holds
    writes          \* writes[k]: how often circles.x[k] was written back

moreVars == <<frame, argv, args, cli, num_circles, num_threads, region, local_x, writes>>

\* the variables of the programs other than the render pass
others == <<clearVars, updateVars, sdlVars, moreVars>>

vars == <<W, H, tile, P, fb0, fb, pc, i, bins, nthreads, thr, single, gen,
          task, cur, pos, runs, written, binsAtFork, others>>

\* no caller of clear is modelled
ClearOff ==
    app = "off" /\ clearColor = -1 /\ twice = FALSE /\ onceFb = <<>> /\ beforeFb = <<>>

\* no update loop is modelled
UpdateOff ==
    /\ circles = <<>> /\ circles0 = <<>> /\ dt = 0
    /\ totalBounces = 0 /\ bounces0 = 0
    /\ chunk = 0 /\ next = 0 /\ upd = <<>>
    /\ taken = 0 /\ raced = FALSE /\ upc = "off"

\* no render section is modelled
SdlOff ==
    /\ drawColor = 0 /\ rchunk = 0 /\ rnext = 0
    /\ sdl = <<>> /\ drawn = {} /\ rpc = "off"

\* no command line is modelled
CliOff == argv = <<>> /\ args = <<>> /\ cli = 0

\* no iteration of runSimulationMemoryOptimized is modelled
MemOff ==
    /\ num_circles = 0 /\ num_threads = 0
    /\ region = <<>> /\ local_x = <<>> /\ writes = <<>>

\* no other program is modelled
MoreOff == frame = 0 /\ CliOff /\ MemOff

\* only the render pass runs
OthersOff == ClearOff /\ UpdateOff /\ SdlOff /\ MoreOff

total_tiles == TotalTiles(W, H, tile)
Tiles == 0..(total_tiles - 1)
Threads == 0..(nthreads - 1)

\* the state at a call of render_circles_tiled_omp on a w x h framebuffer
\* holding pix, with tile edge t, particle store Ps and a team of nt threads
RenderCall(w, h, t, Ps, pix, nt) ==
    /\ W = w /\ H = h /\ tile = t
    /\ P = Ps
    /\ fb0 = pix
    /\ fb = fb0
    /\ pc = "binning"
    /\ i = 0
    /\ bins = EmptyBins(w, h, t)
    /\ nthreads = nt
    /\ thr = [th \in 0..(nt - 1) |-> "outside"]
    /\ single = -1
    /\ gen = 0
    /\ task = [tid \in 0..(TotalTiles(w, h, t) - 1) |-> "none"]
    /\ cur = [th \in 0..(nt - 1) |-> -1]
    /\ pos = [tid \in 0..(TotalTiles(w, h, t) - 1) |-> 0]
    /\ runs = [tid \in 0..(TotalTiles(w, h, t) - 1) |-> 0]
    /\ written = [tid \in 0..(TotalTiles(w, h, t) - 1) |-> {}]
    /\ binsAtFork = bins

\* a call on a cleared framebuffer, by a team of one thread or of MaxThreads
Init ==
    \E g \in Geometries, Ps \in ParticleSets, nt \in {1, MaxThreads} :
        /\ RenderCall(g[1], g[2], g[3], Ps, Cleared(g[1], g[2], Background), nt)
        /\ OthersOff

inputs == <<W, H, tile, P, fb0, nthreads>>

\* --------------------------------------------------------------- binning
\* faulty variant of BinningDone: the loop stops one particle short
BinningDoneOneShort == i >= P.n - 1
\* the loop  for (int i = 0; i < P.n; ++i)  has run to its end
BinningDone == i >= P.n

\* faulty variant of Bin: the radius of the binned particle is zeroed
BinZeroing ==
    /\ pc = "binning"
    /\ ~BinningDone
    /\ bins' = BinParticle(bins, P, i, W, H, tile)
    /\ i' = i + 1
    /\ P' = [P EXCEPT !.r[i] = 0]
    /\ UNCHANGED <<others, W, H, tile, fb0, nthreads, fb, pc, thr, single, gen, task,
                   cur, pos, runs, written, binsAtFork>>
\* one iteration of the binning loop (lines 47-62)
Bin ==
    /\ pc = "binning"
    /\ ~BinningDone
    /\ bins' = BinParticle(bins, P, i, W, H, tile)
    /\ i' = i + 1
    /\ UNCHANGED <<others, inputs, fb, pc, thr, single, gen, task, cur, pos, runs, written, binsAtFork>>

\* #pragma omp parallel: the team is forked after the binning loop
Fork ==
    /\ pc = "binning"
    /\ BinningDone
    /\ pc' = "parallel"
    /\ thr' = [th \in Threads |-> "enter"]
    /\ binsAtFork' = bins
    /\ UNCHANGED <<others, inputs, fb, i, bins, single, gen, task, cur, pos, runs, written>>

\* #pragma omp single: the first thread to arrive executes the region
EnterSingle(th) ==
    /\ pc = "parallel"
    /\ thr[th] = "enter"
    /\ single = -1
    /\ single' = th
    /\ thr' = [thr EXCEPT ![th] = "taskloop"]
    /\ UNCHANGED <<others, inputs, fb, pc, i, bins, gen, task, cur, pos, runs, written, binsAtFork>>

\* nowait: a thread that does not execute the single region goes on to the
\* implicit barrier at the end of the parallel region
SkipSingle(th) ==
    /\ pc = "parallel"
    /\ thr[th] = "enter"
    /\ single # -1
    /\ thr' = [thr EXCEPT ![th] = "barrier"]
    /\ UNCHANGED <<others, inputs, fb, pc, i, bins, single, gen, task, cur, pos, runs, written, binsAtFork>>

\* #pragma omp taskloop grainsize(1): one task per iteration tid
Generate(th) ==
    /\ pc = "parallel"
    /\ thr[th] = "taskloop"
    /\ cur[th] = -1
    /\ gen < total_tiles
    /\ task' = [task EXCEPT ![gen] = "ready"]
    /\ gen' = gen + 1
    /\ UNCHANGED <<others, inputs, fb, pc, i, bins, thr, single, cur, pos, runs, written, binsAtFork>>

\* faulty variant of CanStart: a finished task may be started again
CanStartAgain(tid) == task[tid] \in {"ready", "done"}
\* faulty variant of CanStart: a work unit waits for all the others
CanStartLast(tid) == task[tid] = "ready" /\ \A o \in Tiles \ {tid} : task[o] = "done"
\* a task that a thread may start: generated and not yet taken
CanStart(tid) == task[tid] = "ready"

\* a thread at a task scheduling point (task generation, the end of the
\* taskloop's taskgroup, the barrier) starts the work unit of a tile; a work
\* unit whose bin is empty ends at once
StartTask(th, tid) ==
    /\ pc = "parallel"
    /\ thr[th] \in {"taskloop", "barrier"}
    /\ cur[th] = -1
    /\ CanStart(tid)
    /\ task' = [task EXCEPT ![tid] = IF Len(bins[tid]) = 0 THEN "done" ELSE "running"]
    /\ cur' = [cur EXCEPT ![th] = IF Len(bins[tid]) = 0 THEN -1 ELSE tid]
    /\ pos' = [pos EXCEPT ![tid] = 0]
    /\ runs' = [runs EXCEPT ![tid] = @ + 1]
    /\ UNCHANGED <<others, inputs, fb, i, pc, bins, thr, single, gen, written, binsAtFork>>

\* one iteration of  for (int idx : vec)  of the tile's work unit (lines 80-90);
\* the work unit ends with the last entry of its bin
Draw(th) ==
    /\ pc = "parallel"
    /\ cur[th] # -1
    /\ LET tid == cur[th]
           idx == bins[tid][pos[tid] + 1]
           last == pos[tid] + 1 = Len(bins[tid])
       IN  /\ pos[tid] < Len(bins[tid])
           /\ fb' = DrawInTile(fb, P, idx, tid, W, H, tile)
           /\ written' = [written EXCEPT
                            ![tid] = @ \cup TilePixels(P, idx, tid, W, H, tile)]
           /\ pos' = [pos EXCEPT ![tid] = @ + 1]
           /\ task' = [task EXCEPT ![tid] = IF last THEN "done" ELSE @]
           /\ cur' = [cur EXCEPT ![th] = IF last THEN -1 ELSE @]
    /\ UNCHANGED <<others, inputs, pc, i, bins, thr, single, gen, runs, binsAtFork>>

\* the taskloop's implicit taskgroup: every task it generated has completed
TaskgroupDone == gen = total_tiles /\ \A tid \in Tiles : task[tid] = "done"

\* the generating thread leaves the taskloop and the single region (nowait)
\* and arrives at the barrier of the parallel region
EndTaskloop(th) ==
    /\ pc = "parallel"
    /\ thr[th] = "taskloop"
    /\ cur[th] = -1
    /\ TaskgroupDone
    /\ thr' = [thr EXCEPT ![th] = "barrier"]
    /\ UNCHANGED <<others, inputs, fb, pc, i, bins, single, gen, task, cur, pos, runs, written, binsAtFork>>

\* the implicit barrier at the end of the parallel region: every thread has
\* arrived and no task of the region is left
RegionComplete ==
    /\ \A th \in Threads : thr[th] = "barrier" /\ cur[th] = -1
    /\ \A tid \in Tiles : task[tid] \notin {"ready", "running"}

\* the team joins and render_circles_tiled_omp returns
Join ==
    /\ pc = "parallel"
    /\ RegionComplete
    /\ pc' = "returned"
    /\ thr' = [th \in Threads |-> "outside"]
    /\ UNCHANGED <<others, inputs, fb, i, bins, single, gen, task, cur, pos, runs, written, binsAtFork>>

Next ==
    \/ Bin
    \/ Fork
    \/ \E th \in Threads : EnterSingle(th)
    \/ \E th \in Threads : SkipSingle(th)
    \/ \E th \in Threads : Generate(th)
    \/ \E th \in Threads, tid \in Tiles : StartTask(th, tid)
    \/ \E th \in Threads : Draw(th)
    \/ \E th \in Threads : EndTaskloop(th)
    \/ Join

Spec == Init /\ [][Next]_vars

\* ---------------------------------------------------------- the properties
\* the rectangle [x0,x1) x [y0,y1) of tile tid
RectX0(tid) == TileTx(tid, W, tile) * tile
RectX1(tid) == Min(RectX0(tid) + tile, W)
RectY0(tid) == TileTy(tid, W, tile) * tile
RectY1(tid) == Min(RectY0(tid) + tile, H)

\* the indices of fb.pix that the work unit of tile tid has written
WrittenIndices(tid) == { q[2] * W + q[1] : q \in written[tid] }

\* a work unit has started
RasterStarted == \E tid \in Tiles : runs[tid] > 0

\* C1: no framebuffer pixel is written by the work units of two different
\* tiles: the sets of pixel indices written by distinct tile units are
\* pairwise disjoint in every state of every interleaving.
C1_DisjointTileWrites ==
    \A t1 \in Tiles : \A t2 \in Tiles :
        t1 # t2 => WrittenIndices(t1) \cap WrittenIndices(t2) = {}

\* two work units are running at the same time and both have written pixels
C1_Witness ==
    \E t1 \in Tiles : \E t2 \in Tiles :
        /\ t1 # t2
        /\ task[t1] = "running" /\ task[t2] = "running"
        /\ written[t1] # {} /\ written[t2] # {}

\* C2: whatever the interleaving of the tile work units and whatever the
\* size of the thread team, the framebuffer at the return is the one that
\* the sequential build leaves (tiles one at a time in ascending index).
C2_SameAsSequential ==
    pc = "returned" => fb = RenderSequential(fb0, P, W, H, tile)

\* a returned pass of a team of two over four tiles in which two particles
\* were drawn in more than one tile
C2_Witness ==
    /\ pc = "returned"
    /\ nthreads >= 2
    /\ total_tiles >= 4
    /\ P.n >= 2
    /\ Cardinality({ tid \in Tiles : Len(bins[tid]) >= 2 /\ written[tid] # {} }) >= 2
    /\ fb # fb0

\* C3: no tile work unit starts before the binning loop has processed the
\* last particle, and from the first start on the bins are the bins that
\* binning left when the parallel region was entered: they are only read.
C3_BinningBeforeRaster ==
    RasterStarted =>
        /\ i = P.n
        /\ bins = binsAtFork

\* a work unit is running on a bin that the binning loop gave two particles
C3_Witness ==
    \E tid \in Tiles :
        /\ task[tid] = "running"
        /\ Len(bins[tid]) >= 2
        /\ pos[tid] = 1

\* C4: the function returns only after the work unit of every tile has
\* finished, and the work unit of every tile is executed exactly once.
C4_EveryTileOnce ==
    /\ \A tid \in Tiles : runs[tid] <= 1
    /\ pc = "returned" =>
          \A tid \in Tiles :
              /\ runs[tid] = 1
              /\ task[tid] = "done"
              /\ pos[tid] = Len(bins[tid])

\* the function has returned from a pass of a team of several threads over
\* several tiles
C4_Witness ==
    /\ pc = "returned"
    /\ nthreads >= 2
    /\ total_tiles >= 2
    /\ \A tid \in Tiles : runs[tid] = 1

\* C5: every pixel written while rasterizing a tile lies inside that tile's
\* rectangle, x0 <= x < x1 and y0 <= y < y1, whatever the centre and the
\* radius of the particles of its bin.
C5_WritesInsideOwnTile ==
    \A tid \in Tiles : \A q \in written[tid] :
        /\ RectX0(tid) <= q[1] /\ q[1] < RectX1(tid)
        /\ RectY0(tid) <= q[2] /\ q[2] < RectY1(tid)

\* a single particle has been drawn, clipped, in two different tiles
C5_Witness ==
    /\ P.n = 1
    /\ \E t1 \in Tiles : \E t2 \in Tiles :
          t1 # t2 /\ written[t1] # {} /\ written[t2] # {}

\* C6: every write into fb.pix has 0 <= x < W and 0 <= y < H, so the
\* written index y*W+x lies in [0, W*H).
C6_WritesInBounds ==
    \A tid \in Tiles : \A q \in written[tid] :
        /\ 0 <= q[1] /\ q[1] < W
        /\ 0 <= q[2] /\ q[2] < H
        /\ 0 <= q[2] * W + q[1] /\ q[2] * W + q[1] < W * H

\* a particle with its centre left of and above the framebuffer and a
\* radius larger than the framebuffer has been drawn into the last tile
C6_Witness ==
    /\ P.n = 1
    /\ LRound(P.x[0]) < 0 /\ LRound(P.y[0]) < 0
    /\ P.r[0] > W /\ P.r[0] > H
    /\ total_tiles >= 2
    /\ written[total_tiles - 1] # {}

\* the disc of particle k covers pixel (x, y)
Covers(k, x, y) ==
    /\ P.r[k] >= 0
    /\ (x - LRound(P.x[k])) * (x - LRound(P.x[k]))
         + (y - LRound(P.y[k])) * (y - LRound(P.y[k])) <= P.r[k] * P.r[k]

Coverers(x, y) == { k \in 0..(P.n - 1) : Covers(k, x, y) }

SetMax(S) == CHOOSE m \in S : \A k \in S : k <= m

\* C7: after a pass over a framebuffer cleared to Background, every pixel
\* holds the colour of the highest-index particle whose disc covers it, and
\* Background if no particle covers it.
C7_LastWriterWins ==
    pc = "returned" =>
        \A x \in 0..(W - 1) : \A y \in 0..(H - 1) :
            fb[y * W + x] = IF Coverers(x, y) = {} THEN Background
                            ELSE P.color[SetMax(Coverers(x, y))]

\* after a pass over several tiles, some pixel is covered by two particles,
\* some by the first particle only and some by none
C7_Witness ==
    /\ pc = "returned"
    /\ total_tiles >= 2
    /\ \E x \in 0..(W - 1) : \E y \in 0..(H - 1) : Cardinality(Coverers(x, y)) = 2
    /\ \E x \in 0..(W - 1) : \E y \in 0..(H - 1) : Coverers(x, y) = {0}
    /\ \E x \in 0..(W - 1) : \E y \in 0..(H - 1) : Coverers(x, y) = {}

\* the bounding square [cx-r,cx+r] x [cy-r,cy+r] of particle k intersects
\* the rectangle of tile tid
SquareMeetsTile(k, tid) ==
    /\ LRound(P.x[k]) - P.r[k] <= LRound(P.x[k]) + P.r[k]
    /\ LRound(P.x[k]) - P.r[k] <= RectX1(tid) - 1
    /\ LRound(P.x[k]) + P.r[k] >= RectX0(tid)
    /\ LRound(P.y[k]) - P.r[k] <= RectY1(tid) - 1
    /\ LRound(P.y[k]) + P.r[k] >= RectY0(tid)

InBin(k, tid) == \E j \in 1..Len(bins[tid]) : bins[tid][j] = k

\* C8: after the binning pass, every particle with radius >= 0 is in the
\* bin of every tile whose rectangle its bounding square intersects.
C8_BinningComplete ==
    (pc # "binning" \/ i = P.n) =>
        \A k \in 0..(P.n - 1) : \A tid \in Tiles :
            (P.r[k] >= 0 /\ SquareMeetsTile(k, tid)) => InBin(k, tid)

\* binning has ended with a particle in the bins of exactly two of four
\* tiles, the two that its bounding square intersects
C8_Witness ==
    /\ i = P.n
    /\ total_tiles = 4
    /\ \E k \in 0..(P.n - 1) :
          /\ P.r[k] >= 0
          /\ Cardinality({ tid \in Tiles : SquareMeetsTile(k, tid) }) = 2
          /\ Cardinality({ tid \in Tiles : InBin(k, tid) }) = 2

\* C9: after the binning pass no particle is in the bin of a tile whose
\* rectangle its bounding square does not intersect.
C9_NoBinOutsideSquare ==
    (pc # "binning" \/ i = P.n) =>
        \A k \in 0..(P.n - 1) : \A tid \in Tiles :
            InBin(k, tid) => SquareMeetsTile(k, tid)

\* C10: the final pixel buffer is the same for every tile edge, whether the
\* edge divides W and H or not.
C10_TilingInvariance ==
    pc = "returned" =>
        \A t2 \in TileEdges : fb = RenderSequential(fb0, P, W, H, t2)

\* a pass with an edge that does not divide W has returned, with a particle
\* drawn across its tiles, while another edge of the model divides W
C10_Witness ==
    /\ pc = "returned"
    /\ W % tile # 0
    /\ \E t2 \in TileEdges : W % t2 = 0
    /\ \E k \in 0..(P.n - 1) :
          Cardinality({ tid \in Tiles : InBin(k, tid) /\ written[tid] # {} }) >= 2

\* the bounding square of particle k lies inside the rectangle of tile tid
SquareInsideTile(k, tid) ==
    /\ P.r[k] >= 0
    /\ RectX0(tid) <= LRound(P.x[k]) - P.r[k]
    /\ LRound(P.x[k]) + P.r[k] <= RectX1(tid) - 1
    /\ RectY0(tid) <= LRound(P.y[k]) - P.r[k]
    /\ LRound(P.y[k]) + P.r[k] <= RectY1(tid) - 1

\* C11: when the only particle lies fully inside one tile, the tiled pass
\* leaves the framebuffer that a single unclipped scanline fill of the
\* particle over the whole framebuffer leaves.
C11_SameAsUnclippedFill ==
    (pc = "returned" /\ P.n = 1 /\ \E tid \in Tiles : SquareInsideTile(0, tid)) =>
        fb = WritePixels(fb0, W,
                         FilledCircleOnTarget(LRound(P.x[0]), LRound(P.y[0]), P.r[0], W, H),
                         P.color[0])

\* a pass over several tiles has returned with a disc of radius 1 that
\* lies inside one of them
C11_Witness ==
    /\ pc = "returned"
    /\ P.n = 1
    /\ P.r[0] = 1
    /\ total_tiles >= 2
    /\ \E tid \in Tiles : SquareInsideTile(0, tid) /\ Cardinality(written[tid]) = 5

\* the bounding box of particle k has an empty intersection with
\* [0,W) x [0,H)
SquareOutsideFramebuffer(k) ==
    \/ P.r[k] < 0
    \/ LRound(P.x[k]) + P.r[k] < 0
    \/ LRound(P.x[k]) - P.r[k] > W - 1
    \/ LRound(P.y[k]) + P.r[k] < 0
    \/ LRound(P.y[k]) - P.r[k] > H - 1

\* C12: a particle whose bounding box does not meet the framebuffer does not
\* affect the output: the pass leaves the framebuffer that the pass without
\* that particle leaves.
C12_OutsideParticleNoEffect ==
    pc = "returned" =>
        \A k \in 0..(P.n - 1) :
            SquareOutsideFramebuffer(k) =>
                fb = RenderSequential(fb0, WithoutParticle(P, k), W, H, tile)

\* a pass has returned in which a particle outside the framebuffer was in
\* a bin and was drawn, next to a particle that painted pixels
C12_Witness ==
    /\ pc = "returned"
    /\ P.n = 2
    /\ fb # fb0
    /\ \E k \in 0..(P.n - 1) :
          /\ P.r[k] >= 0
          /\ SquareOutsideFramebuffer(k)
          /\ \E tid \in Tiles : InBin(k, tid)

\* --------------------------------------- a call on an uncleared framebuffer
\* a framebuffer that was not cleared: every pixel holds its own value,
\* none of them Background or a particle's colour
Stale(w, h) == [p \in 0..(w * h - 1) |-> MaxN + 1 + p]

StaleGeometries == { <<3, 2, 2>>, <<4, 3, 3>>, <<3, 2, TILE>> }

InitStale ==
    \E g \in StaleGeometries, Ps \in ParticleSets, nt \in 1..MaxThreads :
        /\ RenderCall(g[1], g[2], g[3], Ps, Stale(g[1], g[2]), nt)
        /\ OthersOff

SpecStale == InitStale /\ [][Next]_vars

\* C13: the pass never clears: at every moment of the call every pixel that
\* no particle's disc covers holds the value it had before the call, and
\* with zero particles the framebuffer is the one before the call.
C13_NeverClears ==
    /\ \A x \in 0..(W - 1) : \A y \in 0..(H - 1) :
          Coverers(x, y) = {} => fb[y * W + x] = fb0[y * W + x]
    /\ P.n = 0 => fb = fb0

\* a pass over an uncleared framebuffer has returned having painted some
\* pixels and left others uncovered
C13_Witness ==
    /\ pc = "returned"
    /\ fb0 = Stale(W, H)
    /\ \E x \in 0..(W - 1) : \E y \in 0..(H - 1) :
          Coverers(x, y) = {} /\ fb[y * W + x] = MaxN + 1 + y * W + x
    /\ \E x \in 0..(W - 1) : \E y \in 0..(H - 1) : fb[y * W + x] \in 1..MaxN

\* ------------------------------------------------ the tile grid on its own
\* widths, heights and tile edges: multiples of the tile edge and not,
\* framebuffers smaller than one tile, single rows and columns
GridGeometries == { <<w, h, t>> : w \in 1..5, h \in 1..4, t \in TileEdges }

\* no particle, or one disc at (1.5, 1.5) that covers every framebuffer
GridParticles == { SOA(<<>>), SOA(<<[x |-> 3, y |-> 3, r |-> 6, color |-> 1]>>) }

InitGrid ==
    \E g \in GridGeometries, Ps \in GridParticles, nt \in 1..MaxThreads :
        /\ RenderCall(g[1], g[2], g[3], Ps, Cleared(g[1], g[2], Background), nt)
        /\ OthersOff

SpecGrid == InitGrid /\ [][Next]_vars

\* the pixels <<x, y>> of the rectangle [x0,x1) x [y0,y1) of tile tid
TileRect(tid) ==
    { <<x, y>> \in (0..(W - 1)) \X (0..(H - 1)) :
        /\ TileX0(TileTx(tid, W, tile), tile) <= x
        /\ x < TileX1(TileTx(tid, W, tile), tile, W)
        /\ TileY0(TileTy(tid, W, tile), tile) <= y
        /\ y < TileY1(TileTy(tid, W, tile), tile, H) }

\* C14: there are ceil(W/T) tile columns and ceil(H/T) tile rows; every
\* pixel of the framebuffer lies in exactly one tile rectangle; every tile
\* rectangle is non-empty and inside the framebuffer; the rectangles are
\* T wide and high except in the last column and row, which end at W and H.
C14_TilesPartitionFramebuffer ==
    /\ TilesX(W, tile) * tile >= W /\ (TilesX(W, tile) - 1) * tile < W
    /\ TilesY(H, tile) * tile >= H /\ (TilesY(H, tile) - 1) * tile < H
    /\ total_tiles = TilesX(W, tile) * TilesY(H, tile)
    /\ \A x \in 0..(W - 1) : \A y \in 0..(H - 1) :
          Cardinality({ tid \in Tiles : <<x, y>> \in TileRect(tid) }) = 1
    /\ \A tid \in Tiles :
          LET tx == TileTx(tid, W, tile)
              ty == TileTy(tid, W, tile)
              x0 == TileX0(tx, tile)
              x1 == TileX1(tx, tile, W)
              y0 == TileY0(ty, tile)
              y1 == TileY1(ty, tile, H)
          IN  /\ 0 <= x0 /\ x0 < x1 /\ x1 <= W
              /\ 0 <= y0 /\ y0 < y1 /\ y1 <= H
              /\ x1 = (IF tx = TilesX(W, tile) - 1 THEN W ELSE x0 + tile)
              /\ y1 = (IF ty = TilesY(H, tile) - 1 THEN H ELSE y0 + tile)

\* a pass has returned on a grid of several columns and rows whose last
\* column and row are clipped, every tile having painted its whole rectangle
C14_Witness ==
    /\ pc = "returned"
    /\ W % tile # 0 /\ H % tile # 0
    /\ TilesX(W, tile) >= 2 /\ TilesY(H, tile) >= 2
    /\ \A tid \in Tiles : written[tid] = TileRect(tid)
    /\ \A p \in DOMAIN fb : fb[p] = 1

\* ------------------------------------------- scenes on a 64 x 64 framebuffer
\* the framebuffer edge of the scenes: 2 x 2 tiles of edge TILE
SceneEdge == 2 * TILE

\* colours of the scenes (stand-ins for the 32-bit ABGR values, which are
\* only stored and compared)
Red == 1
Blue == 2
White == 3

\* a particle with an integer centre (cx, cy), as a record in half pixels
At(cx, cy, r, color) == [x |-> 2 * cx, y |-> 2 * cy, r |-> r, color |-> color]

\* one white particle at (32,32) with r = 40
SceneCover == SOA(<<At(TILE, TILE, 40, White)>>)
\* A at (10,10) r = 5 red and B at (12,12) r = 5 blue, in both orders
SceneAB == SOA(<<At(10, 10, 5, Red), At(12, 12, 5, Blue)>>)
SceneBA == SOA(<<At(12, 12, 5, Blue), At(10, 10, 5, Red)>>)
\* one white particle with r = 10 on or next to the tile boundaries
\* x = 32 and y = 32
ScenesSeam ==
    { SOA(<<At(cx, cy, 10, White)>>) : cx \in {TILE - 1, TILE}, cy \in {16, TILE - 1} }

Scenes == {SceneCover, SceneAB, SceneBA} \cup ScenesSeam

\* the scenes run on a team of one thread and on a team of two
SceneTeams == {1, 2}

InitScenes ==
    \E Ps \in Scenes, nt \in SceneTeams :
        /\ RenderCall(SceneEdge, SceneEdge, TILE, Ps,
                      Cleared(SceneEdge, SceneEdge, Background), nt)
        /\ OthersOff

SpecScenes == InitScenes /\ [][Next]_vars

\* the pixel (x, y) of the framebuffer
Pixel(x, y) == fb[y * W + x]

\* C15 as stated: in the scene with one particle at (32,32), r = 40, every
\* pixel is white after the pass, the four corner pixels included.
C15_EveryPixelWhite ==
    (pc = "returned" /\ P = SceneCover) =>
        \A x \in 0..(W - 1) : \A y \in 0..(H - 1) : Pixel(x, y) = White

\* C15 amended: in the scene with one particle at (32,32), r = 40, after the
\* pass exactly the pixels with (x-32)^2 + (y-32)^2 <= 40^2 are white; the
\* centre is white, the midpoints of the four edges are white, and the four
\* corner pixels (0,0), (63,0), (0,63), (63,63) keep the background.
C15_DiscWhiteCornersBackground ==
    (pc = "returned" /\ P = SceneCover) =>
        /\ \A x \in 0..(W - 1) : \A y \in 0..(H - 1) :
              Pixel(x, y) = IF (x - TILE) * (x - TILE) + (y - TILE) * (y - TILE) <= 40 * 40
                            THEN White ELSE Background
        /\ Pixel(TILE, TILE) = White
        /\ Pixel(0, TILE) = White /\ Pixel(W - 1, TILE) = White
        /\ Pixel(TILE, 0) = White /\ Pixel(TILE, H - 1) = White
        /\ Pixel(0, 0) = Background /\ Pixel(W - 1, 0) = Background
        /\ Pixel(0, H - 1) = Background /\ Pixel(W - 1, H - 1) = Background

\* the pass over the scene has returned, all four tiles having drawn the
\* particle
C15_Witness ==
    /\ pc = "returned"
    /\ P = SceneCover
    /\ W = SceneEdge /\ H = SceneEdge /\ total_tiles = 4
    /\ \A tid \in Tiles : bins[tid] = <<0>> /\ pos[tid] = 1 /\ written[tid] # {}

\* C16: with A at (10,10) and B at (12,12), both r = 5, the bin of tile
\* (0,0) holds both indices; pixel (12,12) ends up with the colour of the
\* particle inserted later: blue when A comes first, red when B comes first.
C16_LaterEntryOverwrites ==
    /\ (pc # "binning" /\ P \in {SceneAB, SceneBA}) => bins[0] = <<0, 1>>
    /\ (pc = "returned" /\ P = SceneAB) => Pixel(12, 12) = Blue
    /\ (pc = "returned" /\ P = SceneBA) => Pixel(12, 12) = Red

\* the pass has returned in the scene with A first, tile (0,0) having drawn
\* both particles, pixel (10,10) of both discs being blue and a pixel of A
\* alone red
C16_Witness ==
    /\ pc = "returned"
    /\ P = SceneAB
    /\ pos[0] = 2
    /\ Pixel(10, 10) = Blue
    /\ Pixel(5, 10) = Red

\* the footprint of particle k inside the framebuffer
Footprint(k) ==
    { <<x, y>> \in (0..(W - 1)) \X (0..(H - 1)) : Covers(k, x, y) }

\* C17: a particle that spans several tiles is in the bin of every tile its
\* bounding square overlaps (centred at x = 31 with r = 10: in the bins of
\* tiles (0,0) and (1,0)); after the pass the pixels written for it by all
\* tiles together are its footprint inside the framebuffer, all of them hold
\* its colour, no pixel was written by two tiles, and every tile ran once.
C17_SeamlessAcrossTiles ==
    (P \in ScenesSeam) =>
        /\ pc # "binning" =>
              /\ \A tid \in Tiles : SquareMeetsTile(0, tid) => InBin(0, tid)
              /\ LRound(P.x[0]) = TILE - 1 => (InBin(0, 0) /\ InBin(0, 1))
        /\ \A t1 \in Tiles : \A t2 \in Tiles :
              t1 # t2 => written[t1] \cap written[t2] = {}
        /\ pc = "returned" =>
              /\ UNION { written[tid] : tid \in Tiles } = Footprint(0)
              /\ \A q \in Footprint(0) : Pixel(q[1], q[2]) = White
              /\ \A tid \in Tiles : runs[tid] = 1

\* the pass has returned for the particle centred at (31,31): all four
\* tiles painted a part of it, on both sides of x = 32 and of y = 32
C17_Witness ==
    /\ pc = "returned"
    /\ P \in ScenesSeam
    /\ LRound(P.x[0]) = TILE - 1 /\ LRound(P.y[0]) = TILE - 1
    /\ \A tid \in Tiles : written[tid] # {}
    /\ Pixel(TILE - 1, TILE - 1) = White /\ Pixel(TILE, TILE - 1) = White
    /\ Pixel(TILE - 1, TILE) = White /\ Pixel(TILE, TILE) = White

\* ------------------------------------------------------ Framebuffer::clear
\* faulty variant of Clear: the fill stops one pixel early
ClearButLast(pix, abgr) ==
    [p \in DOMAIN pix |-> IF p + 1 < Cardinality(DOMAIN pix) THEN abgr ELSE pix[p]]
\* clear: std::fill(pix.begin(), pix.end(), abgr)
Clear(pix, abgr) == [p \in DOMAIN pix |-> abgr]

\* the sizes of the framebuffers that are cleared, <<W, H>>
ClearSizes == { <<2, 2>>, <<3, 1>>, <<1, 2>> }
\* the colours that are cleared to and drawn with
ClearColors == {0, 1, 2}

\* the variables of the render pass while no pass runs on the framebuffer
RenderOff(w, h, pix) ==
    /\ W = w /\ H = h /\ tile = TILE
    /\ P = SOA(<<>>)
    /\ fb0 = pix
    /\ fb = pix
    /\ pc = "off"
    /\ i = 0
    /\ bins = <<>>
    /\ nthreads = 1
    /\ thr = <<>>
    /\ single = -1
    /\ gen = 0
    /\ task = <<>>
    /\ cur = <<>>
    /\ pos = <<>>
    /\ runs = <<>>
    /\ written = <<>>
    /\ binsAtFork = <<>>

renderVars == <<W, H, tile, P, fb0, pc, i, bins, nthreads, thr, single, gen,
                task, cur, pos, runs, written, binsAtFork>>

\* Framebuffer(w, h): pix is w*h zeros
InitClear ==
    /\ MoreOff
    /\ \E g \in ClearSizes : RenderOff(g[1], g[2], Cleared(g[1], g[2], 0))
    /\ app = "fresh"
    /\ clearColor = -1
    /\ twice = FALSE
    /\ onceFb = <<>>
    /\ beforeFb = <<>>
    /\ UpdateOff
    /\ SdlOff

\* fb.clear(abgr)
ClearFb(abgr) ==
    /\ app # "off"
    /\ fb' = Clear(fb, abgr)
    /\ app' = "cleared"
    /\ clearColor' = abgr
    /\ twice' = (app = "cleared" /\ clearColor = abgr)
    /\ onceFb' = IF app = "cleared" /\ clearColor = abgr THEN onceFb ELSE fb'
    /\ beforeFb' = IF app = "cleared" THEN beforeFb ELSE fb
    /\ UNCHANGED <<moreVars, renderVars, updateVars, sdlVars>>

\* putpix(fb, x, y, c): a write that is dropped outside the framebuffer
PutPix(x, y, c) ==
    /\ app # "off"
    /\ fb' = IF x < 0 \/ x >= W \/ y < 0 \/ y >= H THEN fb
             ELSE [fb EXCEPT ![y * W + x] = c]
    /\ app' = "drawn"
    /\ twice' = FALSE
    /\ onceFb' = <<>>
    /\ beforeFb' = <<>>
    /\ UNCHANGED <<clearColor, moreVars, renderVars, updateVars, sdlVars>>

NextClear ==
    \/ \E abgr \in ClearColors : ClearFb(abgr)
    \/ \E x \in (-1)..W, y \in (-1)..H, c \in ClearColors : PutPix(x, y, c)

SpecClear == InitClear /\ [][NextClear]_vars

\* C18: right after clear(C) every one of the W*H pixels holds C, whatever
\* the framebuffer held before, and a second clear(C) right after the first
\* leaves the framebuffer as the first one left it.
C18_ClearSetsEveryPixel ==
    app = "cleared" =>
        /\ DOMAIN fb = 0..(W * H - 1)
        /\ \A p \in 0..(W * H - 1) : fb[p] = clearColor
        /\ twice => fb = onceFb

\* a framebuffer that held two other colours was cleared twice in a row to
\* a third one
C18_Witness ==
    /\ app = "cleared"
    /\ twice
    /\ clearColor = 2
    /\ W * H >= 3
    /\ \E p \in DOMAIN beforeFb : beforeFb[p] = 0
    /\ \E p \in DOMAIN beforeFb : beforeFb[p] = 1

\* ------------------------------- the update loop of the optimized screensaver
\* Args: the default window size
ArgsW == 800
ArgsH == 600
\* schedule(dynamic, 256)
UpdateChunk == 256
\* chunk sizes: 256, and 1 and 2 so that a few circles make several chunks
ChunkSizes == {1, 2, UpdateChunk}
\* dt of a frame in ms: a 60 Hz frame and the 50 ms cap
Dts == {16, 50}
\* totalBounces before the frame
StartCounts == {0, 7}

\* a circle with centre (x, y) px, velocity (vx, vy) px/s and radius r px
CircleAt(x, y, vx, vy, r) ==
    [x |-> 1000 * x, y |-> 1000 * y, vx |-> 1000 * vx, vy |-> 1000 * vy, r |-> r]

\* circles about to reach the left wall and the top wall (a corner), the
\* right wall, the bottom wall, the left wall, and none
CornerCircle == CircleAt(12, 11, -100, -120, 10)
RightCircle == CircleAt(789, 300, 100, 0, 10)
BottomCircle == CircleAt(400, 589, 0, 100, 10)
LeftCircle == CircleAt(12, 300, -100, 60, 10)
FreeCircle == CircleAt(400, 300, 100, -60, 10)

Zeroed(s) == [k \in 0..(Len(s) - 1) |-> s[k + 1]]

CircleSets ==
    { Zeroed(<<CornerCircle, RightCircle>>),
      Zeroed(<<LeftCircle, FreeCircle, BottomCircle>>),
      Zeroed(<<RightCircle, CornerCircle, LeftCircle>>) }

NCircles == Cardinality(DOMAIN circles)

\* c.x += c.vx * dt; c.y += c.vy * dt   (dt = ms / 1000)
Moved(c, ms) ==
    [c EXCEPT !.x = @ + CDiv(c.vx * ms, 1000), !.y = @ + CDiv(c.vy * ms, 1000)]

\* the four wall tests
HitsLeft(c) == c.x - 1000 * c.r < 0
HitsRight(c) == c.x + 1000 * c.r > 1000 * ArgsW
HitsTop(c) == c.y - 1000 * c.r < 0
HitsBottom(c) == c.y + 1000 * c.r > 1000 * ArgsH

\* the bodies of the four branches, without the increment
BounceLeft(c) == [c EXCEPT !.x = 1000 * c.r, !.vx = CDiv(-c.vx * 80, 100)]
\* faulty variant of BounceRight: the circle is not put back at the wall
BounceRightNoReset(c) == [c EXCEPT !.vx = CDiv(-c.vx * 40, 100)]
BounceRight(c) == [c EXCEPT !.x = 1000 * (ArgsW - c.r), !.vx = CDiv(-c.vx * 40, 100)]
BounceTop(c) == [c EXCEPT !.y = 1000 * c.r, !.vy = CDiv(-c.vy * 60, 100)]
BounceBottom(c) == [c EXCEPT !.y = 1000 * (ArgsH - c.r), !.vy = CDiv(-c.vy * 90, 100)]

\* c.vy += 98.0f * dt; c.vx *= 0.999f; c.vy *= 0.999f
Physics(c, ms) ==
    [c EXCEPT !.vx = CDiv(c.vx * 999, 1000),
              !.vy = CDiv((c.vy + 98 * ms) * 999, 1000)]

Walls == {"left", "right", "top", "bottom"}

Hits(wall, c) ==
    CASE wall = "left" -> HitsLeft(c)
      [] wall = "right" -> HitsRight(c)
      [] wall = "top" -> HitsTop(c)
      [] wall = "bottom" -> HitsBottom(c)

Bounce(wall, c) ==
    CASE wall = "left" -> BounceLeft(c)
      [] wall = "right" -> BounceRight(c)
      [] wall = "top" -> BounceTop(c)
      [] wall = "bottom" -> BounceBottom(c)

AfterWall(wall) ==
    CASE wall = "left" -> "right"
      [] wall = "right" -> "top"
      [] wall = "top" -> "bottom"
      [] wall = "bottom" -> "physics"

\* faulty variant of AtomicIncrement: the increment is lost when another
\* thread is at an increment at the same time
IncrementRacy(n, contended) == IF contended THEN n ELSE n + 1
\* #pragma omp atomic  totalBounces++
AtomicIncrement(n, contended) == n + 1

\* another thread than th is at a wall test whose branch it will take
Contended(th) ==
    \E o \in DOMAIN upd \ {th} :
        /\ upd[o].stage \in Walls
        /\ Hits(upd[o].stage, circles[upd[o].it])

\* the state when a team of nt threads enters the loop over cs
InitUpdate ==
    /\ MoreOff
    /\ RenderOff(ArgsW, ArgsH, <<>>)
    /\ ClearOff
    /\ SdlOff
    /\ circles \in CircleSets
    /\ circles0 = circles
    /\ dt \in Dts
    /\ bounces0 \in StartCounts
    /\ totalBounces = bounces0
    /\ chunk \in ChunkSizes
    /\ next = 0
    /\ \E nt \in 1..MaxThreads : upd = [th \in 0..(nt - 1) |-> [it |-> -1, end |-> -1, stage |-> "idle"]]
    /\ taken = 0
    /\ raced = FALSE
    /\ upc = "loop"

\* the threads of the loop's team
Team == DOMAIN upd

\* faulty variant of Grab: the last iteration of the chunk is handed out again
GrabOverlapping(th) ==
    /\ upc = "loop"
    /\ upd[th].stage = "idle"
    /\ next < NCircles
    /\ upd' = [upd EXCEPT ![th] = [it |-> next, end |-> Min(next + chunk, NCircles),
                                   stage |-> "move"]]
    /\ next' = Min(next + Max(chunk - 1, 1), NCircles)
    /\ UNCHANGED <<circles, circles0, dt, totalBounces, bounces0, chunk, taken, raced, upc>>
    /\ UNCHANGED <<moreVars, renderVars, fb, clearVars, sdlVars>>

\* a thread takes the next chunk of iterations
Grab(th) ==
    /\ upc = "loop"
    /\ upd[th].stage = "idle"
    /\ next < NCircles
    /\ upd' = [upd EXCEPT ![th] = [it |-> next, end |-> Min(next + chunk, NCircles),
                                   stage |-> "move"]]
    /\ next' = Min(next + chunk, NCircles)
    /\ UNCHANGED <<circles, circles0, dt, totalBounces, bounces0, chunk, taken, raced, upc>>
    /\ UNCHANGED <<moreVars, renderVars, fb, clearVars, sdlVars>>

\* no chunk is left: the thread waits at the loop's barrier
Arrive(th) ==
    /\ upc = "loop"
    /\ upd[th].stage = "idle"
    /\ next >= NCircles
    /\ upd' = [upd EXCEPT ![th].stage = "done"]
    /\ UNCHANGED <<circles, circles0, dt, totalBounces, bounces0, chunk, next, taken, raced, upc>>
    /\ UNCHANGED <<moreVars, renderVars, fb, clearVars, sdlVars>>

\* c.x += c.vx * dt; c.y += c.vy * dt
Move(th) ==
    /\ upc = "loop"
    /\ upd[th].stage = "move"
    /\ circles' = [circles EXCEPT ![upd[th].it] = Moved(@, dt)]
    /\ upd' = [upd EXCEPT ![th].stage = "left"]
    /\ UNCHANGED <<circles0, dt, totalBounces, bounces0, chunk, next, taken, raced, upc>>
    /\ UNCHANGED <<moreVars, renderVars, fb, clearVars, sdlVars>>

\* one of the four  if (...) { ...; totalBounces++ }
WallTest(th, wall) ==
    /\ upc = "loop"
    /\ upd[th].stage = wall
    /\ IF Hits(wall, circles[upd[th].it])
       THEN /\ circles' = [circles EXCEPT ![upd[th].it] = Bounce(wall, @)]
            /\ totalBounces' = AtomicIncrement(totalBounces, Contended(th))
            /\ taken' = taken + 1
            /\ raced' = (raced \/ Contended(th))
       ELSE UNCHANGED <<circles, totalBounces, taken, raced>>
    /\ upd' = [upd EXCEPT ![th].stage = AfterWall(wall)]
    /\ UNCHANGED <<circles0, dt, bounces0, chunk, next, upc>>
    /\ UNCHANGED <<moreVars, renderVars, fb, clearVars, sdlVars>>

\* gravity and air resistance, then the next iteration of the chunk
Friction(th) ==
    /\ upc = "loop"
    /\ upd[th].stage = "physics"
    /\ circles' = [circles EXCEPT ![upd[th].it] = Physics(@, dt)]
    /\ upd' = [upd EXCEPT ![th] =
                 IF upd[th].it + 1 < upd[th].end
                 THEN [@ EXCEPT !.it = @ + 1, !.stage = "move"]
                 ELSE [@ EXCEPT !.stage = "idle"]]
    /\ UNCHANGED <<circles0, dt, totalBounces, bounces0, chunk, next, taken, raced, upc>>
    /\ UNCHANGED <<moreVars, renderVars, fb, clearVars, sdlVars>>

\* the implicit barrier at the end of the parallel for
JoinUpdate ==
    /\ upc = "loop"
    /\ \A th \in Team : upd[th].stage = "done"
    /\ upc' = "joined"
    /\ UNCHANGED <<circles, circles0, dt, totalBounces, bounces0, chunk, next, upd, taken, raced>>
    /\ UNCHANGED <<moreVars, renderVars, fb, clearVars, sdlVars>>

NextUpdate ==
    \/ \E th \in Team : Grab(th)
    \/ \E th \in Team : Arrive(th)
    \/ \E th \in Team : Move(th)
    \/ \E th \in Team, wall \in Walls : WallTest(th, wall)
    \/ \E th \in Team : Friction(th)
    \/ JoinUpdate

SpecUpdate == InitUpdate /\ [][NextUpdate]_vars

\* the number of the four branches that the loop body takes on circle c
BranchesOf(c, ms) ==
    LET c1 == Moved(c, ms)
        c2 == IF HitsLeft(c1) THEN BounceLeft(c1) ELSE c1
        c3 == IF HitsRight(c2) THEN BounceRight(c2) ELSE c2
        c4 == IF HitsTop(c3) THEN BounceTop(c3) ELSE c3
    IN  (IF HitsLeft(c1) THEN 1 ELSE 0) + (IF HitsRight(c2) THEN 1 ELSE 0)
          + (IF HitsTop(c3) THEN 1 ELSE 0) + (IF HitsBottom(c4) THEN 1 ELSE 0)

RECURSIVE BranchesUpTo(_, _, _)
BranchesUpTo(cs, k, ms) ==
    IF k = 0 THEN 0 ELSE BranchesUpTo(cs, k - 1, ms) + BranchesOf(cs[k - 1], ms)

\* C19: the counter never lags behind the branches taken, and when the loop
\* has finished it has grown by exactly the number of wall-collision
\* branches taken over all circles of the frame, which is the number the
\* loop body takes when run on each circle once.
C19_NoLostBounce ==
    /\ upc # "off" => totalBounces = bounces0 + taken
    /\ upc = "joined" =>
          /\ totalBounces = bounces0 + BranchesUpTo(circles0, NCircles, dt)
          /\ next = NCircles

\* the loop has finished after two threads were at an increment at the
\* same time, a circle having taken two branches
C19_Witness ==
    /\ upc = "joined"
    /\ raced
    /\ Cardinality(Team) >= 2
    /\ taken >= 3
    /\ \E k \in DOMAIN circles0 : BranchesOf(circles0[k], dt) = 2

\* --------------------------- the render section of the optimized screensaver
\* schedule(dynamic, 32)
RenderChunk == 32
\* chunk sizes: 32, and 1 so that a few circles make several chunks
RenderChunks == {1, RenderChunk}

\* the circle c with colour col
Painted(c, col) ==
    [x |-> c.x, y |-> c.y, vx |-> c.vx, vy |-> c.vy, r |-> c.r, color |-> col]

\* circles of radius 0 and 1 in the colours 1, 2, 3; the first two overlap
PaintedSets ==
    { Zeroed(<<Painted(CircleAt(10, 10, 60, 0, 1), 1),
               Painted(CircleAt(11, 10, 0, 60, 0), 2)>>),
      Zeroed(<<Painted(CircleAt(10, 10, 60, 0, 0), 1),
               Painted(CircleAt(20, 20, 0, 60, 1), 2),
               Painted(CircleAt(30, 30, 0, 60, 0), 3)>>) }

\* std::lround of a coordinate held in 1/1000 px
LRoundMilli(m) ==
    IF m >= 0 THEN (m + 500) \div 1000 ELSE -((-m + 500) \div 1000)

\* drawFilledCircle: the points <<cx+dx, cy+dy>> with dx*dx + dy*dy <=
\* radius*radius, each drawn inside the critical section
DiscPoints(cx, cy, radius) ==
    { <<cx + dx, cy + dy>> :
        <<dx, dy>> \in { d \in ((-radius)..radius) \X ((-radius)..radius) :
                           d[1] * d[1] + d[2] * d[2] <= radius * radius } }

\* the state when a team of nt threads enters the loop over circles
InitSdl ==
    /\ MoreOff
    /\ RenderOff(ArgsW, ArgsH, <<>>)
    /\ ClearOff
    /\ circles \in PaintedSets
    /\ circles0 = circles
    /\ dt = 0 /\ totalBounces = 0 /\ bounces0 = 0
    /\ chunk = 0 /\ next = 0 /\ upd = <<>>
    /\ taken = 0 /\ raced = FALSE /\ upc = "off"
    /\ drawColor = 0
    /\ rchunk \in RenderChunks
    /\ rnext = 0
    /\ \E nt \in 1..MaxThreads :
          sdl = [th \in 0..(nt - 1) |->
                   [it |-> -1, end |-> -1, stage |-> "idle", todo |-> {}]]
    /\ drawn = {}
    /\ rpc = "loop"

\* the threads of the loop's team
RenderTeam == DOMAIN sdl

\* a thread takes the next chunk of circles
GrabCircles(th) ==
    /\ rpc = "loop"
    /\ sdl[th].stage = "idle"
    /\ rnext < NCircles
    /\ sdl' = [sdl EXCEPT ![th] = [it |-> rnext, end |-> Min(rnext + rchunk, NCircles),
                                   stage |-> "color", todo |-> {}]]
    /\ rnext' = Min(rnext + rchunk, NCircles)
    /\ UNCHANGED <<drawColor, rchunk, drawn, rpc>>
    /\ UNCHANGED <<moreVars, renderVars, fb, clearVars, updateVars>>

\* no chunk is left: the thread waits at the loop's barrier
ArriveRender(th) ==
    /\ rpc = "loop"
    /\ sdl[th].stage = "idle"
    /\ rnext >= NCircles
    /\ sdl' = [sdl EXCEPT ![th].stage = "done"]
    /\ UNCHANGED <<drawColor, rchunk, rnext, drawn, rpc>>
    /\ UNCHANGED <<moreVars, renderVars, fb, clearVars, updateVars>>

\* the thread's iteration after the one it has finished
NextCircle(t) ==
    IF t.it + 1 < t.end
    THEN [t EXCEPT !.it = @ + 1, !.stage = "color", !.todo = {}]
    ELSE [t EXCEPT !.stage = "idle", !.todo = {}]

\* SDL_SetRenderDrawColor(ren, c.color...), outside any critical section,
\* then the call of drawFilledCircle
SetRenderDrawColor(th) ==
    /\ rpc = "loop"
    /\ sdl[th].stage = "color"
    /\ drawColor' = circles[sdl[th].it].color
    /\ sdl' = [sdl EXCEPT ![th] =
                 [@ EXCEPT !.stage = "draw",
                           !.todo = DiscPoints(LRoundMilli(circles[sdl[th].it].x),
                                               LRoundMilli(circles[sdl[th].it].y),
                                               circles[sdl[th].it].r)]]
    /\ UNCHANGED <<rchunk, rnext, drawn, rpc>>
    /\ UNCHANGED <<moreVars, renderVars, fb, clearVars, updateVars>>

\* #pragma omp critical { SDL_RenderDrawPoint(ren, cx + dx, cy + dy); }
\* for one point of the circle, in whichever order the inner loop runs
RenderDrawPoint(th, q) ==
    /\ rpc = "loop"
    /\ sdl[th].stage = "draw"
    /\ q \in sdl[th].todo
    /\ drawn' = drawn \cup { <<sdl[th].it, q, drawColor>> }
    /\ sdl' = [sdl EXCEPT ![th] =
                 IF sdl[th].todo = {q} THEN NextCircle(@)
                 ELSE [@ EXCEPT !.todo = @ \ {q}]]
    /\ UNCHANGED <<drawColor, rchunk, rnext, rpc>>
    /\ UNCHANGED <<moreVars, renderVars, fb, clearVars, updateVars>>

\* the implicit barrier at the end of the parallel for
JoinRender ==
    /\ rpc = "loop"
    /\ \A th \in RenderTeam : sdl[th].stage = "done"
    /\ rpc' = "joined"
    /\ UNCHANGED <<drawColor, rchunk, rnext, sdl, drawn>>
    /\ UNCHANGED <<moreVars, renderVars, fb, clearVars, updateVars>>

\* the points a thread may draw next
Pending == UNION { sdl[th].todo : th \in RenderTeam }

NextSdl ==
    \/ \E th \in RenderTeam : GrabCircles(th)
    \/ \E th \in RenderTeam : ArriveRender(th)
    \/ \E th \in RenderTeam : SetRenderDrawColor(th)
    \/ \E th \in RenderTeam, q \in Pending : RenderDrawPoint(th, q)
    \/ JoinRender

SpecSdl == InitSdl /\ [][NextSdl]_vars

\* C20: every point drawn for circle i is drawn while the renderer's draw
\* colour is the colour of circle i.
C20_PointsInOwnColour ==
    \A e \in drawn : e[3] = circles[e[1]].color

\* ------------------------------------------ more properties of the render pass
\* the rounded centre of particle k
Cx(k) == LRound(P.x[k])
Cy(k) == LRound(P.y[k])

\* the particle that the work unit of tile tid drew last
LastDrawn(tid) == bins[tid][pos[tid]]

\* C23: for a particle with r >= 0 the pixels painted in a tile are the tile
\* pixels with |y-cy| <= r and |x-cx| <= floor(sqrt(r^2-(y-cy)^2)), which are
\* the tile pixels with (x-cx)^2 + (y-cy)^2 <= r^2 (the pixels that the
\* point test of the optimized screensaver's drawFilledCircle accepts), and
\* every painted pixel receives the particle's colour. The footprint depends
\* on the particle store and the framebuffer size only, which the pass never
\* changes, so it is compared in the states of the binning loop.
C23_ScanlineFootprint ==
    /\ \A k \in 0..(P.n - 1) : \A tid \in Tiles :
          (pc = "binning" /\ P.r[k] >= 0) =>
             /\ TilePixels(P, k, tid, W, H, tile)
                  = { q \in TileRect(tid) : Covers(k, q[1], q[2]) }
             /\ TilePixels(P, k, tid, W, H, tile)
                  = { q \in TileRect(tid) :
                        /\ q[2] - Cy(k) <= P.r[k] /\ Cy(k) - q[2] <= P.r[k]
                        /\ q[1] - Cx(k) <= SqrtTrunc(P.r[k] * P.r[k]
                                             - (q[2] - Cy(k)) * (q[2] - Cy(k)))
                        /\ Cx(k) - q[1] <= SqrtTrunc(P.r[k] * P.r[k]
                                             - (q[2] - Cy(k)) * (q[2] - Cy(k))) }
             /\ TilePixels(P, k, tid, W, H, tile)
                  = DiscPoints(Cx(k), Cy(k), P.r[k]) \cap TileRect(tid)
    /\ \A tid \in Tiles :
          (pc = "parallel" /\ pos[tid] > 0) =>
             \A q \in TilePixels(P, LastDrawn(tid), tid, W, H, tile) :
                 fb[q[2] * W + q[1]] = P.color[LastDrawn(tid)]

\* a tile has just drawn a disc of radius 1 that its rectangle cuts
C23_Witness ==
    /\ pc = "parallel"
    /\ \E tid \in Tiles :
          /\ pos[tid] > 0
          /\ P.r[LastDrawn(tid)] = 1
          /\ Cardinality(TilePixels(P, LastDrawn(tid), tid, W, H, tile)) \in 1..4
          /\ \A q \in TilePixels(P, LastDrawn(tid), tid, W, H, tile) :
                fb[q[2] * W + q[1]] = P.color[LastDrawn(tid)]

\* C24: every bin lists particle indices in strictly ascending order, and
\* after binning the bins are the ones that the binning loop computes from
\* the particle store and the framebuffer size.
C24_BinsAscending ==
    /\ \A tid \in Tiles : \A j \in 1..Len(bins[tid]) : \A k \in 1..Len(bins[tid]) :
          j < k => bins[tid][j] < bins[tid][k]
    /\ pc # "binning" => bins = BinUpTo(P, P.n, W, H, tile)

\* binning has ended with two indices in the bin of one of several tiles
C24_Witness ==
    /\ pc # "binning"
    /\ total_tiles >= 2
    /\ \E tid \in Tiles : bins[tid] = <<0, 1>>
    /\ \E tid \in Tiles : Len(bins[tid]) < 2

\* the number of bins that hold particle k
BinsOf(k) == Cardinality({ tid \in Tiles : InBin(k, tid) })

\* C25: a particle with radius <= 0 is appended to at most one tile's bin.
C25_NonPositiveRadiusOneBin ==
    \A k \in 0..(i - 1) : P.r[k] <= 0 => BinsOf(k) <= 1

\* binning over several tiles has ended with a particle of radius 0 in one
\* bin and a particle of negative radius in at most one
C25_Witness ==
    /\ pc # "binning"
    /\ total_tiles >= 2
    /\ \E k \in 0..(P.n - 1) : P.r[k] = 0 /\ BinsOf(k) = 1
    /\ \E k \in 0..(P.n - 1) : P.r[k] < 0 /\ BinsOf(k) <= 1

\* C27: no step of the pass changes the particle store.
C27_ParticlesUnchanged == [][P' = P]_vars

\* the pass has returned having binned and drawn two particles
C27_Witness ==
    /\ pc = "returned"
    /\ P.n = 2
    /\ fb # fb0
    /\ \E tid \in Tiles : pos[tid] = 2

\* C30: on every row yy that draw_circle_clipped_to_tile visits for a
\* particle in a tile, dy = yy - cy has dy^2 <= r^2, so the square root is
\* taken of a number >= 0, and dx is an integer with 0 <= dx <= |r|.
C30_SqrtArgumentNonNegative ==
    \A k \in 0..(P.n - 1) : \A tid \in Tiles :
        \A yy \in YYFrom(Cy(k), P.r[k], TileY0(TileTy(tid, W, tile), tile))
                  ..YYTo(Cy(k), P.r[k], TileY1(TileTy(tid, W, tile), tile, H)) :
            /\ (yy - Cy(k)) * (yy - Cy(k)) <= P.r[k] * P.r[k]
            /\ HalfWidth(P.r[k], yy - Cy(k)) >= 0
            /\ HalfWidth(P.r[k], yy - Cy(k)) <= (IF P.r[k] >= 0 THEN P.r[k] ELSE -P.r[k])

\* a tile has drawn a disc whose rows its rectangle cuts off, and a particle
\* of negative radius is in a bin
C30_Witness ==
    /\ pc = "returned"
    /\ \E k \in 0..(P.n - 1) : P.r[k] < 0 /\ BinsOf(k) = 1
    /\ \E k \in 0..(P.n - 1) : \E tid \in Tiles :
          /\ InBin(k, tid)
          /\ P.r[k] = 6
          /\ YYFrom(Cy(k), P.r[k], TileY0(TileTy(tid, W, tile), tile)) > Cy(k) - P.r[k]

\* ------------------------------------------------------------- termination
\* the steps of thread th inside the parallel region
ThreadStep(th) ==
    /\ th \in Threads
    /\ \/ EnterSingle(th)
       \/ SkipSingle(th)
       \/ Generate(th)
       \/ \E tid \in Tiles : StartTask(th, tid)
       \/ Draw(th)
       \/ EndTaskloop(th)

\* a call with no particle or with one disc over every tile
InitFair ==
    \E g \in StaleGeometries, Ps \in GridParticles, nt \in 1..MaxThreads :
        /\ RenderCall(g[1], g[2], g[3], Ps, Cleared(g[1], g[2], Background), nt)
        /\ OthersOff

\* the calling thread runs the binning loop, the fork and the join; every
\* thread of the team that can take a step eventually takes one
SpecFair ==
    /\ InitFair
    /\ [][Next]_vars
    /\ WF_vars(Bin) /\ WF_vars(Fork) /\ WF_vars(Join)
    /\ \A th \in 0..(MaxThreads - 1) : WF_vars(ThreadStep(th))

\* every tile's work unit has run once to the end of its bin
AllTilesRasterized ==
    \A tid \in Tiles : task[tid] = "done" /\ runs[tid] = 1 /\ pos[tid] = Len(bins[tid])

\* C26: under fair scheduling of the threads every call eventually returns
\* with all tiles rasterized; every thread that enters the parallel region,
\* whether it generates the tasks or skips the single region, reaches the
\* barrier at its end; and a started work unit can always take its next step
\* (it waits for no other work unit and for no lock).
C26_EventuallyAllTilesRasterized ==
    /\ <>(pc = "returned" /\ AllTilesRasterized)
    /\ \A th \in 0..(MaxThreads - 1) :
          (th \in Threads /\ thr[th] = "enter") ~> (th \in Threads /\ thr[th] = "barrier")
    /\ [](\A th \in Threads : cur[th] # -1 => pos[cur[th]] < Len(bins[cur[th]]))

\* a team of several threads has returned from a pass over several tiles in
\* which a thread other than thread 0 generated the tasks
C26_Witness ==
    /\ pc = "returned"
    /\ AllTilesRasterized
    /\ nthreads = MaxThreads
    /\ total_tiles >= 2
    /\ single > 0
    /\ \E tid \in Tiles : Len(bins[tid]) > 0

\* ------------------------------ the update loop of the base screensaver
\* frames modelled per run
MaxFrames == 2

\* circles at their clamped initial positions in two corners, (10, 10) and
\* (788, 588), a circle that crosses the whole window in one frame, and
\* circles about to reach a wall
BaseCircleSets ==
    { Zeroed(<<CircleAt(10, 10, -180, -60, 10), CircleAt(400, 300, 20000, -15000, 4)>>),
      Zeroed(<<RightCircle, CircleAt(788, 588, 127, 127, 12), LeftCircle>>),
      Zeroed(<<CircleAt(400, 300, 20000, -15000, 4), BottomCircle, CornerCircle>>) }

\* the state when a team enters the update loop of the first frame
InitBase ==
    /\ RenderOff(ArgsW, ArgsH, <<>>)
    /\ ClearOff
    /\ SdlOff
    /\ CliOff
    /\ MemOff
    /\ frame = 1
    /\ circles \in BaseCircleSets
    /\ circles0 = circles
    /\ dt \in Dts
    /\ totalBounces = 0 /\ bounces0 = 0 /\ taken = 0 /\ raced = FALSE
    /\ chunk \in ChunkSizes
    /\ next = 0
    /\ \E nt \in 1..MaxThreads : upd = [th \in 0..(nt - 1) |-> [it |-> -1, end |-> -1, stage |-> "idle"]]
    /\ upc = "loop"

\* one of the four  if (...) { c.x = ...; c.vx = ...; } ; after the last one
\* the thread goes on to the next iteration of its chunk
Rebound(th, wall) ==
    /\ upc = "loop"
    /\ upd[th].stage = wall
    /\ circles' = [circles EXCEPT ![upd[th].it] = IF Hits(wall, @) THEN Bounce(wall, @) ELSE @]
    /\ upd' = [upd EXCEPT ![th] =
                 IF wall # "bottom" THEN [@ EXCEPT !.stage = AfterWall(wall)]
                 ELSE IF upd[th].it + 1 < upd[th].end
                      THEN [@ EXCEPT !.it = @ + 1, !.stage = "move"]
                      ELSE [@ EXCEPT !.stage = "idle"]]
    /\ UNCHANGED <<circles0, dt, totalBounces, bounces0, chunk, next, taken, raced, upc>>
    /\ UNCHANGED <<moreVars, renderVars, fb, clearVars, sdlVars>>

\* the main loop comes round to the update loop of the next frame
NextFrame ==
    /\ upc = "joined"
    /\ frame < MaxFrames
    /\ frame' = frame + 1
    /\ circles0' = circles
    /\ dt' \in Dts
    /\ next' = 0
    /\ upd' = [th \in Team |-> [it |-> -1, end |-> -1, stage |-> "idle"]]
    /\ upc' = "loop"
    /\ UNCHANGED <<circles, totalBounces, bounces0, chunk, taken, raced>>
    /\ UNCHANGED <<argv, args, cli, num_circles, num_threads, region, local_x, writes>>
    /\ UNCHANGED <<renderVars, fb, clearVars, sdlVars>>

NextBase ==
    \/ \E th \in Team : Grab(th)
    \/ \E th \in Team : Arrive(th)
    \/ \E th \in Team : Move(th)
    \/ \E th \in Team, wall \in Walls : Rebound(th, wall)
    \/ JoinUpdate
    \/ NextFrame

SpecBase == InitBase /\ [][NextBase]_vars

\* the body of the sequential screensaver's loop  for (auto& c : circles)
SeqBody(c, ms) ==
    LET c1 == Moved(c, ms)
        c2 == IF HitsLeft(c1) THEN BounceLeft(c1) ELSE c1
        c3 == IF HitsRight(c2) THEN BounceRight(c2) ELSE c2
        c4 == IF HitsTop(c3) THEN BounceTop(c3) ELSE c3
    IN  IF HitsBottom(c4) THEN BounceBottom(c4) ELSE c4

\* the sequential screensaver's update loop
SeqUpdate(cs, ms) == [k \in DOMAIN cs |-> SeqBody(cs[k], ms)]

\* C21: when the parallel for of a frame has joined, every circle has the
\* position and velocity that the sequential update loop gives it from the
\* same circles and dt, for every chunk size, team and interleaving; while
\* the loop runs, a circle whose iteration has not started is untouched.
C21_SameAsSequential ==
    /\ upc = "joined" => circles = SeqUpdate(circles0, dt)
    /\ upc = "loop" =>
          \A k \in DOMAIN circles :
              (k >= next) => circles[k] = circles0[k]

\* two threads have both run iterations of the second frame's loop, in
\* which a circle bounced
C21_Witness ==
    /\ upc = "joined"
    /\ frame = 2
    /\ \A th \in Team : upd[th].it # -1
    /\ Cardinality(Team) >= 2
    /\ \E k \in DOMAIN circles : circles[k].vx < 0 /\ circles0[k].vx > 0

\* circle c lies entirely inside the window
InsideWindow(c) ==
    /\ 1000 * c.r <= c.x /\ c.x <= 1000 * (ArgsW - c.r)
    /\ 1000 * c.r <= c.y /\ c.y <= 1000 * (ArgsH - c.r)

ArgsN == 200
ArgsFPS == 60
\* the most arguments on a command line
MaxArgs == 4

\* the arguments, as character sequences: the four flags, a negative number,
\* zero, a number above every minimum and a number too large for an int
Tokens ==
    { <<"-", "-", "n">>, <<"-", "-", "w">>, <<"-", "-", "h">>, <<"-", "-", "f", "p", "s">>,
      <<"-", "5">>, <<"0">>, <<"7", "0", "0">>,
      <<"9", "9", "9", "9", "9", "9", "9", "9", "9", "9", "9">> }

\* the four lines of main that set args: the field, the flag, the default
Lines ==
    << [field |-> "N", flag |-> <<"-", "-", "n">>, fallback |-> ArgsN],
       [field |-> "W", flag |-> <<"-", "-", "w">>, fallback |-> ArgsW],
       [field |-> "H", flag |-> <<"-", "-", "h">>, fallback |-> ArgsH],
       [field |-> "FPS", flag |-> <<"-", "-", "f", "p", "s">>, fallback |-> ArgsFPS] >>

\* std::atoi: white space, a sign, then digits up to the first other
\* character; the set of the values it may return. A number that does not
\* fit an int is undefined behaviour: any int may come back.
Atoi(tok) ==
    LET digit == ("0" :> 0) @@ ("1" :> 1) @@ ("2" :> 2) @@ ("3" :> 3) @@ ("4" :> 4)
                 @@ ("5" :> 5) @@ ("6" :> 6) @@ ("7" :> 7) @@ ("8" :> 8) @@ ("9" :> 9)
        RECURSIVE Skip(_)
        Skip(k) == IF k <= Len(tok) /\ tok[k] = " " THEN Skip(k + 1) ELSE k
        start == Skip(1)
        signed == start <= Len(tok) /\ tok[start] \in {"-", "+"}
        negative == signed /\ tok[start] = "-"
        RECURSIVE Digits(_, _)
        \* the magnitude read from position k on, -1 if it exceeds INT_MAX
        Digits(k, acc) ==
            IF k > Len(tok) \/ tok[k] \notin DOMAIN digit THEN acc
            ELSE IF acc > (2147483647 - digit[tok[k]]) \div 10 THEN -1
            ELSE Digits(k + 1, 10 * acc + digit[tok[k]])
        magnitude == Digits(IF signed THEN start + 1 ELSE start, 0)
    IN  IF magnitude = -1 THEN {-2147483647 - 1, -1, 0, 2147483647}
        ELSE {IF negative THEN -magnitude ELSE magnitude}

\* parseIntArg: the values it may return for flag on the command line av
ParseIntArg(flag, av, fallback) ==
    LET found == { k \in 1..(Len(av) - 1) : av[k] = flag }
    IN  IF found = {} THEN {fallback}
        ELSE Atoi(av[(CHOOSE k \in found : \A j \in found : k <= j) + 1])

\* faulty variant of Effective: std::min where the code has std::max
EffectiveMin(line, v) ==
    CASE line = 1 -> Min(1, v)
      [] line = 2 -> Min(640, v)
      [] line = 3 -> Min(480, v)
      [] line = 4 -> IF v < 30 THEN 30 ELSE IF 240 < v THEN 240 ELSE v
\* std::max(1, v), std::max(640, v), std::max(480, v), std::clamp(v, 30, 240)
Effective(line, v) ==
    CASE line = 1 -> Max(1, v)
      [] line = 2 -> Max(640, v)
      [] line = 3 -> Max(480, v)
      [] line = 4 -> IF v < 30 THEN 30 ELSE IF 240 < v THEN 240 ELSE v

\* main is entered with a command line of up to MaxArgs arguments
InitCli ==
    /\ RenderOff(ArgsW, ArgsH, <<>>)
    /\ ClearOff
    /\ UpdateOff
    /\ SdlOff
    /\ MemOff
    /\ frame = 0
    /\ argv \in UNION { [1..n -> Tokens] : n \in 0..MaxArgs }
    /\ args = [N |-> ArgsN, W |-> ArgsW, H |-> ArgsH, FPS |-> ArgsFPS]
    /\ cli = 1

\* args.X = std::max(lo, parseIntArg(flag, argc, argv, args.X))  and the
\* line of FPS with std::clamp
ParseArg ==
    /\ cli \in 1..4
    /\ \E v \in ParseIntArg(Lines[cli].flag, argv, args[Lines[cli].field]) :
          args' = [args EXCEPT ![Lines[cli].field] = Effective(cli, v)]
    /\ cli' = cli + 1
    /\ UNCHANGED <<argv, frame, num_circles, num_threads, region, local_x, writes>>
    /\ UNCHANGED <<renderVars, fb, clearVars, updateVars, sdlVars>>

SpecCli == InitCli /\ [][ParseArg]_vars

\* C22: whatever the command line, once a line of main has set a field of
\* the configuration the field is within its limits: N >= 1, W >= 640,
\* H >= 480, 30 <= FPS <= 240.
C22_ConfigurationWithinLimits ==
    /\ cli > 1 => args.N >= 1
    /\ cli > 2 => args.W >= 640
    /\ cli > 3 => args.H >= 480
    /\ cli > 4 => args.FPS >= 30 /\ args.FPS <= 240

\* the command line  --fps 99999999999 --w --n  has been parsed: FPS from a
\* number that fits no int, W from a flag in place of a number, N from a
\* flag without a value
C22_Witness ==
    /\ cli = 5
    /\ argv = << <<"-", "-", "f", "p", "s">>,
                 <<"9", "9", "9", "9", "9", "9", "9", "9", "9", "9", "9">>,
                 <<"-", "-", "w">>, <<"-", "-", "n">> >>
    /\ args = [N |-> ArgsN, W |-> 640, H |-> ArgsH, FPS |-> 240]

\* ------------------------- one iteration of runSimulationMemoryOptimized
\* the most circles and the largest omp_get_max_threads()
MaxCircles == 5
MaxTeam == 3

\* int chunk_size = (int)num_circles / num_threads
chunk_size == CDiv(num_circles, num_threads)
\* int start_idx = thread_id * chunk_size
start_idx(thread_id) == thread_id * chunk_size
\* int end_idx = (thread_id == num_threads - 1) ? (int)num_circles
\*                                              : (thread_id + 1) * chunk_size
end_idx(thread_id) ==
    IF thread_id = num_threads - 1 THEN num_circles ELSE (thread_id + 1) * chunk_size

\* the function is entered with omp_get_max_threads() = mt, and the runtime
\* gives the parallel region a team of 1..mt threads
InitMem ==
    /\ RenderOff(ArgsW, ArgsH, <<>>)
    /\ ClearOff
    /\ UpdateOff
    /\ SdlOff
    /\ CliOff
    /\ frame = 0
    /\ num_circles \in 0..MaxCircles
    /\ num_threads \in 1..MaxTeam
    /\ \E team \in 1..num_threads :
          /\ region = [th \in 0..(team - 1) |-> "compute"]
          /\ local_x = [th \in 0..(team - 1) |-> <<>>]
    /\ writes = [k \in 0..(num_circles - 1) |-> 0]

\* the loop  for (int i = start_idx; i < end_idx; ++i)  of thread th: the new
\* values of its circles are pushed to the thread's local arrays
ComputeChunk(th) ==
    /\ region[th] = "compute"
    /\ local_x' = [local_x EXCEPT ![th] =
                     [j \in 1..Max(end_idx(th) - start_idx(th), 0) |-> start_idx(th) + j - 1]]
    /\ region' = [region EXCEPT ![th] = "critical"]
    /\ UNCHANGED <<frame, argv, args, cli, num_circles, num_threads, writes>>
    /\ UNCHANGED <<renderVars, fb, clearVars, updateVars, sdlVars>>

\* #pragma omp critical: circles.x[start_idx + j] = local_x[j] for every j
WriteBack(th) ==
    /\ region[th] = "critical"
    /\ writes' = [k \in DOMAIN writes |->
                    IF \E j \in 1..Len(local_x[th]) : k = start_idx(th) + j - 1
                    THEN writes[k] + 1 ELSE writes[k]]
    /\ region' = [region EXCEPT ![th] = "done"]
    /\ UNCHANGED <<frame, argv, args, cli, num_circles, num_threads, local_x>>
    /\ UNCHANGED <<renderVars, fb, clearVars, updateVars, sdlVars>>

NextMem ==
    \/ \E th \in DOMAIN region : ComputeChunk(th)
    \/ \E th \in DOMAIN region : WriteBack(th)

SpecMem == InitMem /\ [][NextMem]_vars

\* the indices start_idx..end_idx-1 of thread th
IndexRange(th) == start_idx(th)..(end_idx(th) - 1)

\* C28: the index ranges of the threads of the team are pairwise disjoint,
\* and when every thread of the team has written back, the ranges have
\* covered 0..n-1 and every circle has been written exactly once.
C28_RangesPartitionCircles ==
    /\ \A a \in DOMAIN region : \A b \in DOMAIN region :
          a # b => IndexRange(a) \cap IndexRange(b) = {}
    /\ (\A th \in DOMAIN region : region[th] = "done") =>
          /\ UNION { IndexRange(th) : th \in DOMAIN region } = 0..(num_circles - 1)
          /\ \A k \in DOMAIN writes : writes[k] = 1

====
